---- MODULE Spec2Model ----
(***************************************************************************)
(* River Bank System: the account store (users.py, tbl_accounts), the      *)
(* transaction ledger (transactions.py, tbl_transactions) and the account  *)
(* operations that couple them (actions.py).                               *)
(*                                                                         *)
(* Every storage access of the source (one SQL statement inside one        *)
(* `with self.db_object as connection:` block, committed when the block is *)
(* left) is one step of the model, so that the order of the statements     *)
(* inside a call, the statements of two concurrent callers and the faults  *)
(* of single statements are all visible.  Amounts are REAL columns in the  *)
(* source; the model uses integers (whole currency units).                 *)
(***************************************************************************)
EXTENDS Integers, Sequences, FiniteSets, TLC

VARIABLES
    tbl_accounts,      \* rows of table tbl_accounts (a set: username is UNIQUE)
    tbl_transactions,  \* rows of table tbl_transactions, in rowid order
    now,               \* the store's clock (CURRENT_TIMESTAMP)
    pc,                \* per caller: position inside the running call
    call,              \* per caller: arguments of the running / last call (account: the
                       \* selector, column, display name or password argument)
    step,              \* per caller: index of the balance adjustment in progress
    previous_balance,  \* per caller: local of add_current_balance / add_savings_balance
    result,            \* per caller: outcome of the last call
    returned,          \* per caller: value the last read returned (<<v>>, None, or a list of rows)
    pre,               \* history: both tables as they were when the call started
    faultsIn,          \* history: statements of the running / last call that hit a storage fault
    attempted,         \* history: balance writes (of a direct store call: statements)
                       \* the running / last call has attempted
    start,             \* history: balances each account was created with
    okcalls,           \* history: per username, number of calls that returned normally
    ncalls,            \* history: number of deposit/withdraw/transfer calls started
    nfaults,           \* history: number of storage faults injected
    session            \* per caller: where main() is (at) and the username in use

vars == <<tbl_accounts, tbl_transactions, now, pc, call, step, previous_balance,
          result, returned, pre, faultsIn, attempted, start, okcalls, ncalls, nfaults,
          session>>

(* ---------------------------- bounds ----------------------------------- *)
MaxCalls == 2
MaxFaults == 1
MaxAmount == 1
MaxTime == 2
MaxRecords == 2
TicksPerDay == 2
MaxSessionCalls == 1

\* date('now', '-7 days')
WindowDays == 7

(* ---------------------------- domains ---------------------------------- *)
Usernames == {"alice", "bob"}
Callers == {"c1", "c2"}
SeqCallers == {"c1"}
DisplayNames == {"Display"}
Passwords == {"password1"}
StartBalances == {0, 1}
OpeningBalances == {<<1, 0>>}
Values == (-1) .. MaxAmount
Selectors == {"current", "savings", "crypto"}

None == <<>>

\* main() is at the start menu and holds no username.
NoSession == [at |-> "start", username |-> "none"]

ALLOWED_COLUMNS ==
    {"id", "username", "display_name", "password_hash", "current_balance", "savings_balance"}

VALID_ACCOUNTS == {"current", "savings"}

\* The columns of tbl_accounts.
TableColumns ==
    {"id", "username", "display_name", "password_hash", "current_balance", "savings_balance"}

\* Arguments of direct get_column_from_username / set_column_from_username
\* calls: every allowed column and one that is not, and <<column, new_data>>.
GetColumns == ALLOWED_COLUMNS \cup {"balance"}
SetInputs ==
    {<<"current_balance", <<0>>>>, <<"balance", <<0>>>>}
LookupNames == Usernames

\* Passwords typed at the login prompt: the registered one and a wrong one.
LoginPasswords == Passwords \cup {"password2"}

\* Arguments of direct log_transaction calls: <<transaction_type, amount, account>>.
LogInputs == {<<"deposit", 1, "current">>}

(* ------------------------- pure helpers -------------------------------- *)

\* crypto.hash_bcrypt: an opaque digest of the plaintext.
hash_bcrypt(plaintext) == <<"bcrypt", plaintext>>

\* The rows of tbl_accounts matching `WHERE username = ?`.
RowsOf(accounts, target_username) == {r \in accounts : r.username = target_username}

\* Variant: a username without a row yields the default 0 instead of None.
get_column_from_username_missing0(accounts, column, target_username, fault) ==
    IF fault THEN None
    ELSE IF RowsOf(accounts, target_username) = {} THEN <<0>>
    ELSE LET row == CHOOSE r \in RowsOf(accounts, target_username) : TRUE
         IN  IF column \in {"current_balance", "savings_balance"}
             THEN row[column]
             ELSE <<row[column]>>

\* Variant: a storage fault on the read yields the default 0 instead of None.
get_column_from_username_default0(accounts, column, target_username, fault) ==
    IF fault THEN <<0>>
    ELSE IF RowsOf(accounts, target_username) = {} THEN None
    ELSE LET row == CHOOSE r \in RowsOf(accounts, target_username) : TRUE
         IN  IF column \in {"current_balance", "savings_balance"}
             THEN row[column]
             ELSE <<row[column]>>

\* SELECT {column} ... fetchone(), then `row[0]` / None.  A storage fault
\* (sqlite3.OperationalError) is caught and also yields None.  A present
\* value v is returned as <<v>>, None as <<>>.
get_column_from_username(accounts, column, target_username, fault) ==
    IF fault THEN None
    ELSE IF RowsOf(accounts, target_username) = {} THEN None
    ELSE LET row == CHOOSE r \in RowsOf(accounts, target_username) : TRUE
         IN  IF column \in {"current_balance", "savings_balance"}
             THEN row[column]
             ELSE <<row[column]>>

\* Variant: the UPDATE of a balance writes both balance columns of the row.
UpdateRow_both(r, column, target_username, new_data) ==
    IF r.username # target_username THEN r
    ELSE IF column \in {"current_balance", "savings_balance"}
         THEN [r EXCEPT !["current_balance"] = new_data, !["savings_balance"] = new_data]
         ELSE [r EXCEPT ![column] = new_data]

\* Variant: the UPDATE has no WHERE clause.
UpdateRow_all(r, column, target_username, new_data) == [r EXCEPT ![column] = new_data]

\* UPDATE tbl_accounts SET {column} = ? WHERE username = ?.  No matching row:
\* nothing changes.  A storage fault is caught and the table is left as it was.
UpdateRow(r, column, target_username, new_data) ==
    IF r.username = target_username THEN [r EXCEPT ![column] = new_data] ELSE r

\* Variant: the row is updated although the statement reported a fault.
set_column_from_username_despite_fault(accounts, column, target_username, new_data, fault) ==
    {UpdateRow(r, column, target_username, new_data) : r \in accounts}

set_column_from_username(accounts, column, target_username, new_data, fault) ==
    IF fault THEN accounts
    ELSE {UpdateRow(r, column, target_username, new_data) : r \in accounts}

\* Variant: every new row gets the id 1.
NextAccountId_one(accounts) == 1

\* id INTEGER PRIMARY KEY AUTOINCREMENT: one more than the largest id the
\* table has ever held; rows are never deleted, so that is the row count.
NextAccountId(accounts) == Cardinality(accounts) + 1

\* Variant: the amount is subtracted.
new_balance_subtract(previous, balance) == previous - balance

\* Variant: a balance is never taken below zero.
new_balance_floor(previous, balance) ==
    IF previous + balance < 0 THEN previous ELSE previous + balance

\* new_balance = previous_balance + balance
new_balance(previous, balance) == previous + balance

\* Variant: the write is `SET column = column + ?`, computed by the store
\* from the value it holds when the write runs.
add_balance_store_atomic(accounts, column, username, previous, balance, fault) ==
    IF fault THEN accounts
    ELSE {IF r.username = username
          THEN [r EXCEPT ![column] = <<r[column][1] + balance>>]
          ELSE r : r \in accounts}

\* The last two lines of add_current_balance / add_savings_balance: the sum
\* is computed from the value read earlier and written back.
add_balance_store(accounts, column, username, previous, balance, fault) ==
    set_column_from_username(accounts, column, username,
                             <<new_balance(previous, balance)>>, fault)

\* Variant: the call goes to log_transaction after its first write.
AfterWrite_log(n, adjustments) == "log"

\* Where a call continues after the write of adjustment number n: the next
\* add_*_balance of the call if there is one, else log_transaction.
AfterWrite(n, adjustments) == IF n < Len(adjustments) THEN "read" ELSE "log"

\* Variant: a deposit always goes to the current balance.
Adjustments_deposit_current(op, value, account) ==
    IF op = "deposit" THEN << <<"current_balance", value>> >>
    ELSE IF op = "withdraw" THEN
        IF account = "current" THEN << <<"current_balance", -value>> >>
        ELSE << <<"savings_balance", -value>> >>
    ELSE
        IF account = "current"
        THEN << <<"current_balance", -value>>, <<"savings_balance", value>> >>
        ELSE << <<"current_balance", value>>, <<"savings_balance", -value>> >>

\* Variant: a transfer from current credits the current balance again.
Adjustments_credit_current(op, value, account) ==
    IF op = "deposit" THEN
        IF account = "current" THEN << <<"current_balance", value>> >>
        ELSE << <<"savings_balance", value>> >>
    ELSE IF op = "withdraw" THEN
        IF account = "current" THEN << <<"current_balance", -value>> >>
        ELSE << <<"savings_balance", -value>> >>
    ELSE
        IF account = "current"
        THEN << <<"current_balance", -value>>, <<"current_balance", value>> >>
        ELSE << <<"current_balance", value>>, <<"savings_balance", -value>> >>

\* Variant: a transfer from savings debits savings before it credits current.
Adjustments_debit_first(op, value, account) ==
    IF op = "deposit" THEN
        IF account = "current" THEN << <<"current_balance", value>> >>
        ELSE << <<"savings_balance", value>> >>
    ELSE IF op = "withdraw" THEN
        IF account = "current" THEN << <<"current_balance", -value>> >>
        ELSE << <<"savings_balance", -value>> >>
    ELSE
        IF account = "current"
        THEN << <<"current_balance", -value>>, <<"savings_balance", value>> >>
        ELSE << <<"savings_balance", -value>>, <<"current_balance", value>> >>

\* The balance adjustments of one call, in the order the source performs
\* them: <<column, signed amount>>.
Adjustments(op, value, account) ==
    IF op = "deposit" THEN
        IF account = "current" THEN << <<"current_balance", value>> >>
        ELSE << <<"savings_balance", value>> >>
    ELSE IF op = "withdraw" THEN
        IF account = "current" THEN << <<"current_balance", -value>> >>
        ELSE << <<"savings_balance", -value>> >>
    ELSE
        IF account = "current"
        THEN << <<"current_balance", -value>>, <<"savings_balance", value>> >>
        ELSE << <<"current_balance", value>>, <<"savings_balance", -value>> >>

\* Variant: the two transfer labels are exchanged.
LogLabel_swapped(op, account) ==
    IF op = "transfer"
    THEN (IF account = "current" THEN "savings_to_current" ELSE "current_to_savings")
    ELSE account

\* Variant: a transfer is labelled with its source account.
LogLabel_plain(op, account) == account

\* The account label of the log_transaction call that ends a call.
LogLabel(op, account) ==
    IF op = "transfer"
    THEN (IF account = "current" THEN "current_to_savings" ELSE "savings_to_current")
    ELSE account

\* Variant: a row equal in username, type, amount and account is not
\* inserted a second time.
InsertTransaction_dedup(transactions, username, transaction_type, amount, account, ts, fault) ==
    IF fault \/ \E i \in 1 .. Len(transactions) :
                    /\ transactions[i].username = username
                    /\ transactions[i].transaction_type = transaction_type
                    /\ transactions[i].amount = amount
                    /\ transactions[i].account = account
    THEN transactions
    ELSE Append(transactions,
                [id |-> Len(transactions) + 1,
                 username |-> username,
                 transaction_type |-> transaction_type,
                 amount |-> amount,
                 account |-> account,
                 timestamp |-> ts])

\* Variant: INSERT OR REPLACE on the id of the newest row.
InsertTransaction_replace(transactions, username, transaction_type, amount, account, ts, fault) ==
    IF fault THEN transactions
    ELSE IF transactions = <<>> THEN
         <<[id |-> 1, username |-> username, transaction_type |-> transaction_type,
            amount |-> amount, account |-> account, timestamp |-> ts]>>
    ELSE [transactions EXCEPT ![Len(transactions)] =
             [id |-> Len(transactions), username |-> username,
              transaction_type |-> transaction_type, amount |-> amount,
              account |-> account, timestamp |-> ts]]

\* Variant: the row is written although the statement reported a fault.
InsertTransaction_despite_fault(transactions, username, transaction_type, amount, account, ts, fault) ==
    Append(transactions,
           [id |-> Len(transactions) + 1,
            username |-> username,
            transaction_type |-> transaction_type,
            amount |-> amount,
            account |-> account,
            timestamp |-> ts])

\* INSERT INTO tbl_transactions: id is AUTOINCREMENT, timestamp defaults to
\* CURRENT_TIMESTAMP.  A storage fault is caught and nothing is inserted.
InsertTransaction(transactions, username, transaction_type, amount, account, ts, fault) ==
    IF fault THEN transactions
    ELSE Append(transactions,
                [id |-> Len(transactions) + 1,
                 username |-> username,
                 transaction_type |-> transaction_type,
                 amount |-> amount,
                 account |-> account,
                 timestamp |-> ts])

\* One whole call on an existing account, run to its end with no other
\* caller in between and no storage fault: every add_*_balance in order,
\* then log_transaction.
RECURSIVE ApplyAdjustments(_, _, _)
ApplyAdjustments(accounts, username, adjustments) ==
    IF adjustments = <<>> THEN accounts
    ELSE LET column == Head(adjustments)[1]
             balance == Head(adjustments)[2]
             previous == get_column_from_username(accounts, column, username, FALSE)[1]
         IN  ApplyAdjustments(
                 add_balance_store(accounts, column, username, previous, balance, FALSE),
                 username, Tail(adjustments))

RunCall(db, op, username, value, account, ts) ==
    [accounts |-> ApplyAdjustments(db.accounts, username, Adjustments(op, value, account)),
     transactions |-> InsertTransaction(db.transactions, username, op, value,
                                        LogLabel(op, account), ts, FALSE)]

(* ---------------------------- initial state ---------------------------- *)
NoCall == [op |-> "none", username |-> "none", value |-> 0, account |-> "none"]

Init ==
    /\ tbl_accounts = {}
    /\ tbl_transactions = <<>>
    /\ now = 0
    /\ pc = [c \in Callers |-> "idle"]
    /\ call = [c \in Callers |-> NoCall]
    /\ step = [c \in Callers |-> 0]
    /\ previous_balance = [c \in Callers |-> 0]
    /\ result = [c \in Callers |-> "none"]
    /\ returned = [c \in Callers |-> None]
    /\ pre = [c \in Callers |-> [accounts |-> {}, transactions |-> <<>>]]
    /\ faultsIn = [c \in Callers |-> {}]
    /\ attempted = [c \in Callers |-> 0]
    /\ start = [u \in Usernames |-> None]
    /\ okcalls = [u \in Usernames |-> 0]
    /\ ncalls = 0
    /\ nfaults = 0
    /\ session = [c \in Callers |-> NoSession]

(* ------------------------------ actions -------------------------------- *)

\* Names a statement of a call: its kind and the adjustment it belongs to.
StepName(kind, n) == <<kind, n>>

\* A storage fault may be injected while the fault budget lasts.
FaultChoices == IF nfaults < MaxFaults THEN {FALSE, TRUE} ELSE {FALSE}

CountFault(fault) == nfaults' = (IF fault THEN nfaults + 1 ELSE nfaults)

\* Variant: INSERT OR REPLACE, an existing row of the username is replaced.
create_new_user_replace(c, username, display_name, password, current_balance, savings_balance) ==
    /\ pc[c] = "idle"
    /\ call' = [call EXCEPT ![c] = [op |-> "create_new_user", username |-> username,
                                    value |-> current_balance, account |-> display_name]]
    /\ pre' = [pre EXCEPT ![c] =
                   [accounts |-> tbl_accounts, transactions |-> tbl_transactions]]
    /\ faultsIn' = [faultsIn EXCEPT ![c] = {}]
    /\ attempted' = [attempted EXCEPT ![c] = 0]
    /\ tbl_accounts' = (tbl_accounts \ RowsOf(tbl_accounts, username)) \cup
          {[id |-> NextAccountId(tbl_accounts),
            username |-> username,
            display_name |-> display_name,
            password_hash |-> hash_bcrypt(password),
            current_balance |-> <<current_balance>>,
            savings_balance |-> <<savings_balance>>]}
    /\ start' = [start EXCEPT ![username] = <<current_balance, savings_balance>>]
    /\ result' = [result EXCEPT ![c] = "ok"]
    /\ UNCHANGED <<session, tbl_transactions, now, pc, step, previous_balance, returned,
                   okcalls, ncalls, nfaults>>

\* UsersDB.create_new_user: one INSERT.  The UNIQUE constraint on username
\* raises sqlite3.IntegrityError, which is not caught; OperationalError is.
create_new_user(c, username, display_name, password, current_balance, savings_balance) ==
    /\ pc[c] = "idle"
    /\ call' = [call EXCEPT ![c] = [op |-> "create_new_user", username |-> username,
                                    value |-> current_balance, account |-> display_name]]
    /\ pre' = [pre EXCEPT ![c] =
                   [accounts |-> tbl_accounts, transactions |-> tbl_transactions]]
    /\ \E fault \in FaultChoices :
        /\ CountFault(fault)
        /\ faultsIn' = [faultsIn EXCEPT ![c] = IF fault THEN {StepName("insert", 0)} ELSE {}]
        /\ attempted' = [attempted EXCEPT ![c] = 0]
        /\ IF fault THEN
                /\ result' = [result EXCEPT ![c] = "ok"]
                /\ UNCHANGED <<tbl_accounts, start>>
           ELSE IF RowsOf(tbl_accounts, username) # {} THEN
                /\ result' = [result EXCEPT ![c] = "IntegrityError"]
                /\ UNCHANGED <<tbl_accounts, start>>
           ELSE
                /\ tbl_accounts' = tbl_accounts \cup
                      {[id |-> NextAccountId(tbl_accounts),
                        username |-> username,
                        display_name |-> display_name,
                        password_hash |-> hash_bcrypt(password),
                        current_balance |-> <<current_balance>>,
                        savings_balance |-> <<savings_balance>>]}
                /\ start' = [start EXCEPT ![username] =
                                <<current_balance, savings_balance>>]
                /\ result' = [result EXCEPT ![c] = "ok"]
    /\ UNCHANGED <<session, tbl_transactions, now, pc, step, previous_balance, returned,
                   okcalls, ncalls>>

\* Variant: only a negative amount is refused.
ArgumentCheck_negative(value, account) ==
    IF value < 0 THEN "ValueError: amount"
    ELSE IF account \notin VALID_ACCOUNTS THEN "ValueError: account"
    ELSE "running"

\* Variant: the account check is missing.
ArgumentCheck_no_account(value, account) ==
    IF value <= 0 THEN "ValueError: amount" ELSE "running"

\* The two argument checks at the head of deposit_into_account,
\* withdraw_from_account and transfer_between_accounts, in their order: the
\* ValueError raised, or "running" when the call goes on.
ArgumentCheck(value, account) ==
    IF value <= 0 THEN "ValueError: amount"
    ELSE IF account \notin VALID_ACCOUNTS THEN "ValueError: account"
    ELSE "running"

\* Entry of deposit_into_account / withdraw_from_account /
\* transfer_between_accounts: the two argument checks.
EnterCall(c, op, username, value, account) ==
    /\ pc[c] = "idle"
    /\ ncalls < MaxCalls
    /\ ncalls' = ncalls + 1
    /\ call' = [call EXCEPT ![c] =
                   [op |-> op, username |-> username, value |-> value, account |-> account]]
    /\ pre' = [pre EXCEPT ![c] =
                   [accounts |-> tbl_accounts, transactions |-> tbl_transactions]]
    /\ faultsIn' = [faultsIn EXCEPT ![c] = {}]
    /\ attempted' = [attempted EXCEPT ![c] = 0]
    /\ result' = [result EXCEPT ![c] = ArgumentCheck(value, account)]
    /\ IF ArgumentCheck(value, account) = "running"
       THEN /\ pc' = [pc EXCEPT ![c] = "read"]
            /\ step' = [step EXCEPT ![c] = 1]
       ELSE UNCHANGED <<pc, step>>
    /\ UNCHANGED <<session, tbl_accounts, tbl_transactions, now, previous_balance, returned,
                   start, okcalls, nfaults>>

deposit_into_account(c) ==
    \E username \in Usernames, value \in Values, target_account \in Selectors :
        EnterCall(c, "deposit", username, value, target_account)

withdraw_from_account(c) ==
    \E username \in Usernames, value \in Values, target_account \in Selectors :
        EnterCall(c, "withdraw", username, value, target_account)

transfer_between_accounts(c) ==
    \E username \in Usernames, value \in Values, source_account \in Selectors :
        EnterCall(c, "transfer", username, value, source_account)

\* The adjustments of the caller's call, and the one the caller is at.
Adjs(c) == Adjustments(call[c].op, call[c].value, call[c].account)

CurAdj(c) == Adjs(c)[step[c]]

\* add_current_balance / add_savings_balance, first statement:
\* previous_balance = float(get_column_from_username(...)); float(None)
\* raises TypeError, which ends the call.
add_balance_read(c) ==
    /\ pc[c] = "read"
    /\ \E fault \in FaultChoices :
        /\ CountFault(fault)
        /\ faultsIn' = [faultsIn EXCEPT ![c] =
                           IF fault THEN @ \cup {StepName("read", step[c])} ELSE @]
        /\ LET got == get_column_from_username(tbl_accounts, CurAdj(c)[1],
                                               call[c].username, fault)
           IN  IF got = None THEN
                    /\ result' = [result EXCEPT ![c] = "TypeError"]
                    /\ pc' = [pc EXCEPT ![c] = "idle"]
                    /\ UNCHANGED previous_balance
               ELSE
                    /\ previous_balance' = [previous_balance EXCEPT ![c] = got[1]]
                    /\ pc' = [pc EXCEPT ![c] = "write"]
                    /\ UNCHANGED result
    /\ UNCHANGED <<session, tbl_accounts, tbl_transactions, now, call, step, returned, pre,
                   attempted, start, okcalls, ncalls>>

\* add_current_balance / add_savings_balance, second statement:
\* set_column_from_username(column, username, previous_balance + balance).
add_balance_write(c) ==
    /\ pc[c] = "write"
    /\ \E fault \in FaultChoices :
        /\ CountFault(fault)
        /\ faultsIn' = [faultsIn EXCEPT ![c] =
                           IF fault THEN @ \cup {StepName("write", step[c])} ELSE @]
        /\ tbl_accounts' = add_balance_store(
                               tbl_accounts, CurAdj(c)[1], call[c].username,
                               previous_balance[c], CurAdj(c)[2], fault)
    /\ attempted' = [attempted EXCEPT ![c] = @ + 1]
    /\ pc' = [pc EXCEPT ![c] = AfterWrite(step[c], Adjs(c))]
    /\ step' = [step EXCEPT ![c] =
                   IF AfterWrite(step[c], Adjs(c)) = "read" THEN @ + 1 ELSE @]
    /\ UNCHANGED <<session, tbl_transactions, now, call, previous_balance, result, returned,
                   pre, start, okcalls, ncalls>>

\* TransactionsDB.log_transaction, the last statement of a call; the call
\* then returns normally.
log_transaction(c) ==
    /\ pc[c] = "log"
    /\ \E fault \in FaultChoices :
        /\ CountFault(fault)
        /\ faultsIn' = [faultsIn EXCEPT ![c] =
                           IF fault THEN @ \cup {StepName("log", 0)} ELSE @]
        /\ tbl_transactions' = InsertTransaction(
                                   tbl_transactions, call[c].username, call[c].op,
                                   call[c].value, LogLabel(call[c].op, call[c].account),
                                   now, fault)
    /\ pc' = [pc EXCEPT ![c] = "idle"]
    /\ result' = [result EXCEPT ![c] = "ok"]
    /\ okcalls' = [okcalls EXCEPT ![call[c].username] = @ + 1]
    /\ UNCHANGED <<session, tbl_accounts, now, call, step, previous_balance, returned, pre,
                   attempted, start, ncalls>>

\* The store's clock advances.
Tick ==
    /\ now < MaxTime
    /\ now' = now + 1
    /\ UNCHANGED <<session, tbl_accounts, tbl_transactions, pc, call, step, previous_balance,
                   result, returned, pre, faultsIn, attempted, start, okcalls, ncalls,
                   nfaults>>

Register(c) ==
    \E username \in Usernames, display_name \in DisplayNames, password \in Passwords,
       current_balance \in StartBalances, savings_balance \in StartBalances :
        create_new_user(c, username, display_name, password, current_balance, savings_balance)

\* The rows of two registered users, as create_new_user inserts them.
Registered ==
    {[id |-> 1, username |-> "alice", display_name |-> "Display",
      password_hash |-> hash_bcrypt("password1"),
      current_balance |-> <<1>>, savings_balance |-> <<1>>],
     [id |-> 2, username |-> "bob", display_name |-> "Display",
      password_hash |-> hash_bcrypt("password1"),
      current_balance |-> <<1>>, savings_balance |-> <<1>>]}

\* The database file holds both accounts and an empty ledger; no call has
\* been made yet.
InitAccounts ==
    /\ tbl_accounts = Registered
    /\ tbl_transactions = <<>>
    /\ now = 0
    /\ pc = [c \in Callers |-> "idle"]
    /\ call = [c \in Callers |-> NoCall]
    /\ step = [c \in Callers |-> 0]
    /\ previous_balance = [c \in Callers |-> 0]
    /\ result = [c \in Callers |-> "none"]
    /\ returned = [c \in Callers |-> None]
    /\ pre = [c \in Callers |-> [accounts |-> {}, transactions |-> <<>>]]
    /\ faultsIn = [c \in Callers |-> {}]
    /\ attempted = [c \in Callers |-> 0]
    /\ start = [u \in Usernames |-> <<1, 1>>]
    /\ okcalls = [u \in Usernames |-> 0]
    /\ ncalls = 0
    /\ nfaults = 0
    /\ session = [c \in Callers |-> NoSession]

(* The account operations of one interactive session at a time (the calls  *)
(* are sequential) on a store that holds both accounts; any statement may  *)
(* hit a storage fault.                                                    *)
Next ==
    \E c \in SeqCallers :
        \/ deposit_into_account(c)
        \/ withdraw_from_account(c)
        \/ transfer_between_accounts(c)
        \/ add_balance_read(c)
        \/ add_balance_write(c)
        \/ log_transaction(c)

Spec == InitAccounts /\ [][Next]_vars

(* The same session starting from the empty store, with registration and   *)
(* the store's clock.                                                      *)
NextStore ==
    \/ Next
    \/ \E c \in SeqCallers : Register(c)
    \/ Tick

SpecStore == Init /\ [][NextStore]_vars

(* Two callers, each with its own Actions object and connections, run one  *)
(* call each against the store that holds both accounts; their statements  *)
(* interleave freely and no storage fault occurs (the fault budget is      *)
(* spent).                                                                 *)
InitConc ==
    /\ tbl_accounts = Registered
    /\ tbl_transactions = <<>>
    /\ now = 0
    /\ pc = [c \in Callers |-> "idle"]
    /\ call = [c \in Callers |-> NoCall]
    /\ step = [c \in Callers |-> 0]
    /\ previous_balance = [c \in Callers |-> 0]
    /\ result = [c \in Callers |-> "none"]
    /\ returned = [c \in Callers |-> None]
    /\ pre = [c \in Callers |-> [accounts |-> {}, transactions |-> <<>>]]
    /\ faultsIn = [c \in Callers |-> {}]
    /\ attempted = [c \in Callers |-> 0]
    /\ start = [u \in Usernames |-> <<1, 1>>]
    /\ okcalls = [u \in Usernames |-> 0]
    /\ ncalls = 0
    /\ nfaults = MaxFaults
    /\ session = [c \in Callers |-> NoSession]

NextConc ==
    \E c \in Callers :
        \/ result[c] = "none" /\ deposit_into_account(c)
        \/ result[c] = "none" /\ withdraw_from_account(c)
        \/ result[c] = "none" /\ transfer_between_accounts(c)
        \/ add_balance_read(c)
        \/ add_balance_write(c)
        \/ log_transaction(c)

SpecConc == InitConc /\ [][NextConc]_vars

(* ------------------- direct calls of the UsersDB methods --------------- *)

\* Variant: the column check is missing.
ColumnAllowed_any(column) == TRUE

\* `if column not in ALLOWED_COLUMNS: raise ValueError`
ColumnAllowed(column) == column \in ALLOWED_COLUMNS

\* What a projection makes of the value get_column_from_username returned:
\* float(...) and int(...) raise TypeError on None, `is not None` gives a
\* boolean, get_password_hash and get_column_from_username pass it on.
ConvertResult(conv, got) ==
    IF conv \in {"float", "int"} /\ got = None THEN "TypeError" ELSE "ok"

ConvertValue(conv, got) ==
    IF conv = "exists" THEN <<got # None>> ELSE got

\* One read of the account store: the column check, then one SELECT, then
\* the projection's conversion.  A column the table does not have makes the
\* SELECT raise sqlite3.OperationalError ("no such column").
ReadCall(c, op, column, username, conv) ==
    /\ pc[c] = "idle"
    /\ call' = [call EXCEPT ![c] =
                   [op |-> op, username |-> username, value |-> 0, account |-> column]]
    /\ pre' = [pre EXCEPT ![c] =
                   [accounts |-> tbl_accounts, transactions |-> tbl_transactions]]
    /\ IF ~ColumnAllowed(column) THEN
            /\ result' = [result EXCEPT ![c] = "ValueError: column"]
            /\ returned' = [returned EXCEPT ![c] = None]
            /\ faultsIn' = [faultsIn EXCEPT ![c] = {}]
            /\ attempted' = [attempted EXCEPT ![c] = 0]
            /\ UNCHANGED nfaults
       ELSE \E fault \in FaultChoices :
            /\ CountFault(fault)
            /\ attempted' = [attempted EXCEPT ![c] = 1]
            /\ faultsIn' = [faultsIn EXCEPT ![c] =
                               IF fault \/ column \notin TableColumns
                               THEN {StepName("select", 0)} ELSE {}]
            /\ LET got == get_column_from_username(
                              tbl_accounts, column, username,
                              fault \/ column \notin TableColumns)
               IN  /\ result' = [result EXCEPT ![c] = ConvertResult(conv, got)]
                   /\ returned' = [returned EXCEPT ![c] =
                                      IF ConvertResult(conv, got) = "ok"
                                      THEN ConvertValue(conv, got) ELSE None]
    /\ UNCHANGED <<session, tbl_accounts, tbl_transactions, now, pc, step, previous_balance,
                   start, okcalls, ncalls>>

get_column_call(c) ==
    \E column \in GetColumns, username \in LookupNames :
        ReadCall(c, "get_column_from_username", column, username, "none")

get_password_hash(c) ==
    \E username \in LookupNames :
        ReadCall(c, "get_password_hash", "password_hash", username, "none")

get_current_balance(c) ==
    \E username \in LookupNames :
        ReadCall(c, "get_current_balance", "current_balance", username, "float")

get_savings_balance(c) ==
    \E username \in LookupNames :
        ReadCall(c, "get_savings_balance", "savings_balance", username, "float")

get_account_number(c) ==
    \E username \in LookupNames :
        ReadCall(c, "get_account_number", "id", username, "int")

get_user_exists(c) ==
    \E username \in LookupNames :
        ReadCall(c, "get_user_exists", "username", username, "exists")

ReadOps ==
    {"get_column_from_username", "get_password_hash", "get_current_balance",
     "get_savings_balance", "get_account_number", "get_user_exists"}

\* A direct set_column_from_username call: the column check, then one UPDATE.
set_column_call(c) ==
    /\ pc[c] = "idle"
    /\ \E input \in SetInputs, username \in LookupNames :
        /\ call' = [call EXCEPT ![c] =
                       [op |-> "set_column_from_username", username |-> username,
                        value |-> 0, account |-> input[1]]]
        /\ IF ~ColumnAllowed(input[1]) THEN
                /\ result' = [result EXCEPT ![c] = "ValueError: column"]
                /\ faultsIn' = [faultsIn EXCEPT ![c] = {}]
                /\ attempted' = [attempted EXCEPT ![c] = 0]
                /\ UNCHANGED <<tbl_accounts, nfaults>>
           ELSE \E fault \in FaultChoices :
                /\ CountFault(fault)
                /\ attempted' = [attempted EXCEPT ![c] = 1]
                /\ faultsIn' = [faultsIn EXCEPT ![c] =
                                   IF fault \/ input[1] \notin TableColumns
                                   THEN {StepName("update", 0)} ELSE {}]
                /\ tbl_accounts' = set_column_from_username(
                                       tbl_accounts, input[1], username, input[2],
                                       fault \/ input[1] \notin TableColumns)
                /\ result' = [result EXCEPT ![c] = "ok"]
    /\ pre' = [pre EXCEPT ![c] =
                   [accounts |-> tbl_accounts, transactions |-> tbl_transactions]]
    /\ UNCHANGED <<session, tbl_transactions, now, pc, step, previous_balance, returned,
                   start, okcalls, ncalls>>

(* The methods of UsersDB called one after the other on a store that starts *)
(* empty; any statement may hit a storage fault.                            *)
NextUsers ==
    \E c \in SeqCallers :
        \/ Register(c)
        \/ get_column_call(c)
        \/ get_password_hash(c)
        \/ get_current_balance(c)
        \/ get_savings_balance(c)
        \/ get_account_number(c)
        \/ get_user_exists(c)
        \/ set_column_call(c)

SpecUsers == Init /\ [][NextUsers]_vars

(* ---------------- direct calls of the TransactionsDB methods ------------ *)

\* Variant: the window starts WindowDays days before the instant of the query.
Cutoff_instant(t) == t - WindowDays * TicksPerDay

\* date('now', '-7 days'): the start (00:00:00) of the day WindowDays days
\* before the day of t.  A timestamp compares >= to it from that midnight on.
Cutoff(t) == ((t - WindowDays * TicksPerDay) \div TicksPerDay) * TicksPerDay

\* Variant: the SELECT joins tbl_accounts, rows of a username without an
\* account are not selected.
Selected_joined(transactions, username, t) ==
    {i \in 1 .. Len(transactions) :
        /\ transactions[i].username = username
        /\ transactions[i].timestamp >= Cutoff(t)
        /\ RowsOf(tbl_accounts, username) # {}}

\* WHERE username = ? AND timestamp >= date('now', '-7 days'): the positions
\* of the selected rows.
Selected(transactions, username, t) ==
    {i \in 1 .. Len(transactions) :
        /\ transactions[i].username = username
        /\ transactions[i].timestamp >= Cutoff(t)}

\* ORDER BY timestamp DESC: every arrangement of the selected rows in which
\* timestamps do not increase.  Rows with equal timestamps have no defined
\* order among themselves.
Orderings(transactions, rows) ==
    {order \in [1 .. Cardinality(rows) -> rows] :
        /\ \A i, j \in 1 .. Cardinality(rows) : i # j => order[i] # order[j]
        /\ \A i, j \in 1 .. Cardinality(rows) :
               i < j => transactions[order[i]].timestamp >= transactions[order[j]].timestamp}

\* Variant: rows are returned although the SELECT reported a fault.
QueryResults_despite_fault(transactions, username, t, fault) ==
    {[i \in DOMAIN order |-> transactions[order[i]]] :
        order \in Orderings(transactions, Selected(transactions, username, t))}

\* cursor.fetchall() of the SELECT, or [] when sqlite3.OperationalError was
\* caught: the lists the call can return.
QueryResults(transactions, username, t, fault) ==
    IF fault THEN {<<>>}
    ELSE {[i \in DOMAIN order |-> transactions[order[i]]] :
             order \in Orderings(transactions, Selected(transactions, username, t))}

\* A direct log_transaction call.
log_transaction_call(c) ==
    /\ pc[c] = "idle"
    /\ Len(tbl_transactions) < MaxRecords
    /\ \E username \in Usernames, input \in LogInputs, fault \in FaultChoices :
        /\ CountFault(fault)
        /\ call' = [call EXCEPT ![c] =
                       [op |-> "log_transaction", username |-> username,
                        value |-> input[2], account |-> input[3]]]
        /\ faultsIn' = [faultsIn EXCEPT ![c] = IF fault THEN {StepName("log", 0)} ELSE {}]
        /\ tbl_transactions' = InsertTransaction(
                                   tbl_transactions, username, input[1], input[2],
                                   input[3], now, fault)
    /\ pre' = [pre EXCEPT ![c] =
                   [accounts |-> tbl_accounts, transactions |-> tbl_transactions]]
    /\ attempted' = [attempted EXCEPT ![c] = 1]
    /\ result' = [result EXCEPT ![c] = "ok"]
    /\ UNCHANGED <<session, tbl_accounts, now, pc, step, previous_balance, returned, start,
                   okcalls, ncalls>>

\* TransactionsDB.get_transactions: one SELECT; a storage fault gives [].
\* call.value records the instant of the query.
get_transactions(c) ==
    /\ pc[c] = "idle"
    /\ \E username \in Usernames, fault \in FaultChoices :
        /\ CountFault(fault)
        /\ call' = [call EXCEPT ![c] =
                       [op |-> "get_transactions", username |-> username,
                        value |-> now, account |-> "none"]]
        /\ faultsIn' = [faultsIn EXCEPT ![c] = IF fault THEN {StepName("select", 0)} ELSE {}]
        /\ \E rows \in QueryResults(tbl_transactions, username, now, fault) :
               returned' = [returned EXCEPT ![c] = rows]
    /\ pre' = [pre EXCEPT ![c] =
                   [accounts |-> tbl_accounts, transactions |-> tbl_transactions]]
    /\ attempted' = [attempted EXCEPT ![c] = 1]
    /\ result' = [result EXCEPT ![c] = "ok"]
    /\ UNCHANGED <<session, tbl_accounts, tbl_transactions, now, pc, step, previous_balance,
                   start, okcalls, ncalls>>

\* WindowDays days pass with no call.
Wait ==
    /\ now <= MaxTime
    /\ now' = now + WindowDays * TicksPerDay
    /\ UNCHANGED <<session, tbl_accounts, tbl_transactions, pc, call, step, previous_balance,
                   result, returned, pre, faultsIn, attempted, start, okcalls, ncalls,
                   nfaults>>

(* The methods of TransactionsDB called one after the other on a ledger     *)
(* that starts empty, while the clock advances.                             *)
NextLedger ==
    \/ \E c \in SeqCallers :
        \/ log_transaction_call(c)
        \/ get_transactions(c)
    \/ Tick
    \/ Wait

SpecLedger == Init /\ [][NextLedger]_vars

(* Every operation of the three classes on one database that holds both   *)
(* accounts: one account operation, then direct calls of the store methods *)
(* and further registrations in any order.                                 *)
NextAll ==
    \E c \in SeqCallers :
        \/ ncalls = 0 /\ deposit_into_account(c)
        \/ ncalls = 0 /\ withdraw_from_account(c)
        \/ ncalls = 0 /\ transfer_between_accounts(c)
        \/ add_balance_read(c)
        \/ add_balance_write(c)
        \/ log_transaction(c)
        \/ ncalls > 0 /\ Register(c)
        \/ ncalls > 0 /\ set_column_call(c)
        \/ ncalls > 0 /\ log_transaction_call(c)
        \/ ncalls > 0 /\ get_transactions(c)

SpecAll == InitAccounts /\ [][NextAll]_vars

(* ----------------------- the worked example ---------------------------- *)

\* The calls of the example, in order: <<operation, amount, account>>.
Script ==
    <<<<"deposit", 25, "current">>, <<"withdraw", 200, "current">>,
      <<"transfer", 10, "savings">>>>

\* Each caller runs the example for its own user.
ScenarioUser(c) == IF c = "c1" THEN "alice" ELSE "bob"

\* Both accounts hold current = 100 and savings = 50.
ScenarioAccounts ==
    {[id |-> 1, username |-> "alice", display_name |-> "Display",
      password_hash |-> hash_bcrypt("password1"),
      current_balance |-> <<100>>, savings_balance |-> <<50>>],
     [id |-> 2, username |-> "bob", display_name |-> "Display",
      password_hash |-> hash_bcrypt("password1"),
      current_balance |-> <<100>>, savings_balance |-> <<50>>]}

\* No storage fault occurs (the fault budget is spent); ncalls starts where
\* the cap on calls leaves room for both users to run the whole example.
InitScenario ==
    /\ tbl_accounts = ScenarioAccounts
    /\ tbl_transactions = <<>>
    /\ now = 0
    /\ pc = [c \in Callers |-> "idle"]
    /\ call = [c \in Callers |-> NoCall]
    /\ step = [c \in Callers |-> 0]
    /\ previous_balance = [c \in Callers |-> 0]
    /\ result = [c \in Callers |-> "none"]
    /\ returned = [c \in Callers |-> None]
    /\ pre = [c \in Callers |-> [accounts |-> {}, transactions |-> <<>>]]
    /\ faultsIn = [c \in Callers |-> {}]
    /\ attempted = [c \in Callers |-> 0]
    /\ start = [u \in Usernames |-> <<100, 50>>]
    /\ okcalls = [u \in Usernames |-> 0]
    /\ ncalls = MaxCalls - 2 * Len(Script)
    /\ nfaults = MaxFaults
    /\ session = [c \in Callers |-> NoSession]

\* The caller's next call of the example: the one after those that have
\* returned for its user.
ScenarioCall(c) ==
    /\ okcalls[ScenarioUser(c)] < Len(Script)
    /\ LET next == Script[okcalls[ScenarioUser(c)] + 1]
       IN  EnterCall(c, next[1], ScenarioUser(c), next[2], next[3])

(* Two users run the example, each in its own session; the statements of   *)
(* the two sessions interleave.                                            *)
NextScenario ==
    \E c \in Callers :
        \/ ScenarioCall(c)
        \/ add_balance_read(c)
        \/ add_balance_write(c)
        \/ log_transaction(c)

SpecScenario == InitScenario /\ [][NextScenario]_vars

(* ------------------------------- login --------------------------------- *)

\* Variant: every password is accepted.
check_password_any(input_password_plaintext, target_password_hash) == TRUE

\* auth.check_password: bcrypt.checkpw, true exactly for the plaintext the
\* digest was made from.
check_password(input_password_plaintext, target_password_hash) ==
    target_password_hash = hash_bcrypt(input_password_plaintext)

\* menus.login_prompt followed by main's `if res`: get_user_exists, then
\* get_password_hash and check_password.  Returns <<username>>, or False
\* (written <<>>, which `if res` treats alike); on False main prints "Incorrect login details, please try again.".
login_prompt(c) ==
    /\ pc[c] = "idle"
    /\ \E input_username \in LookupNames, input_password_plain \in LoginPasswords,
          fault1 \in FaultChoices :
        LET exists == get_column_from_username(
                          tbl_accounts, "username", input_username, fault1) # None
        IN  \E fault2 \in (IF exists /\ ~fault1 THEN FaultChoices ELSE {FALSE}) :
            LET target_hash == get_column_from_username(
                                   tbl_accounts, "password_hash", input_username, fault2)
                res == /\ exists
                       /\ target_hash # None
                       /\ check_password(input_password_plain, target_hash[1])
            IN  /\ call' = [call EXCEPT ![c] =
                               [op |-> "login_prompt", username |-> input_username,
                                value |-> 0, account |-> input_password_plain]]
                /\ nfaults' = nfaults + (IF fault1 \/ fault2 THEN 1 ELSE 0)
                /\ faultsIn' = [faultsIn EXCEPT ![c] =
                                   (IF fault1 THEN {StepName("select", 1)} ELSE {}) \cup
                                   (IF fault2 THEN {StepName("select", 2)} ELSE {})]
                /\ returned' = [returned EXCEPT ![c] =
                                   IF res THEN <<input_username>> ELSE <<>>]
                /\ result' = [result EXCEPT ![c] =
                                 IF res THEN "home_page" ELSE "Incorrect login details"]
    /\ pre' = [pre EXCEPT ![c] =
                   [accounts |-> tbl_accounts, transactions |-> tbl_transactions]]
    /\ attempted' = [attempted EXCEPT ![c] = 0]
    /\ UNCHANGED <<session, tbl_accounts, tbl_transactions, now, pc, step, previous_balance,
                   start, okcalls, ncalls>>

(* The start menu on a store that starts empty: registrations and login     *)
(* attempts in any order.                                                   *)
NextLogin ==
    \E c \in SeqCallers :
        \/ Register(c)
        \/ login_prompt(c)

SpecLogin == Init /\ [][NextLogin]_vars

(* One account operation on a store that starts empty: registrations      *)
(* first, then a single deposit, withdraw or transfer for a username that  *)
(* may or may not have an account.                                         *)
NextFresh ==
    \E c \in SeqCallers :
        \/ ncalls = 0 /\ Register(c)
        \/ ncalls = 0 /\ deposit_into_account(c)
        \/ ncalls = 0 /\ withdraw_from_account(c)
        \/ ncalls = 0 /\ transfer_between_accounts(c)
        \/ add_balance_read(c)
        \/ add_balance_write(c)
        \/ log_transaction(c)

SpecFresh == Init /\ [][NextFresh]_vars

(* --------------------------- the session loop -------------------------- *)

\* The last call ended with an exception nothing catches: the program has
\* terminated.
Crashed(c) ==
    result[c] \in {"TypeError", "ValueError: amount", "ValueError: account",
                   "IntegrityError"}

\* main() or home_page() is waiting for input at the given place.
AtMenu(c, at) == pc[c] = "idle" /\ ~Crashed(c) /\ session[c].at = at

\* login_prompt has returned a username and home_page has not been entered yet.
LoginGranted(c) == call[c].op = "login_prompt" /\ result[c] = "home_page"

\* Variant: home_page works on another username than the one it was given.
ActionsUser_other(c) == CHOOSE u \in Usernames : u # session[c].username

\* The username home_page passes to Actions(username) and get_transactions.
ActionsUser(c) == session[c].username

\* main, case LOGIN: res = menus.login_prompt().
main_login(c) ==
    /\ AtMenu(c, "start")
    /\ ~LoginGranted(c)
    /\ login_prompt(c)

\* create_user_prompt, the username loop: a username that get_user_exists
\* reports is refused and asked again; any other goes on to create_new_user.
create_user_prompt(c) ==
    /\ pc[c] = "idle" /\ ~Crashed(c) /\ ~LoginGranted(c)
    /\ session[c].at \in {"start", "create_user_prompt"}
    /\ \E new_username \in Usernames, fault \in FaultChoices :
        /\ CountFault(fault)
        /\ faultsIn' = [faultsIn EXCEPT ![c] =
                           IF fault THEN {StepName("select", 0)} ELSE {}]
        /\ call' = [call EXCEPT ![c] =
                       [op |-> "create_user_prompt", username |-> new_username,
                        value |-> 0, account |-> "none"]]
        /\ IF get_column_from_username(tbl_accounts, "username", new_username, fault) # None
           THEN /\ result' = [result EXCEPT ![c] = "Username already exists"]
                /\ session' = [session EXCEPT ![c] =
                                  [at |-> "create_user_prompt", username |-> "none"]]
           ELSE /\ result' = [result EXCEPT ![c] = "ok"]
                /\ session' = [session EXCEPT ![c] =
                                  [at |-> "create_new_user", username |-> new_username]]
    /\ pre' = [pre EXCEPT ![c] =
                   [accounts |-> tbl_accounts, transactions |-> tbl_transactions]]
    /\ attempted' = [attempted EXCEPT ![c] = 1]
    /\ UNCHANGED <<tbl_accounts, tbl_transactions, now, pc, step, previous_balance,
                   returned, start, okcalls, ncalls>>

\* create_user_prompt, last statement: accounts_db.create_new_user(...).
create_user_insert(c) ==
    /\ AtMenu(c, "create_new_user")
    /\ call[c].op = "create_user_prompt"
    /\ \E display_name \in DisplayNames, password \in Passwords,
          balances \in OpeningBalances :
        create_new_user(c, session[c].username, display_name, password,
                        balances[1], balances[2])

\* main: `if res: home_page(res)` after login_prompt, `home_page(res)` after
\* create_user_prompt has returned.
enter_home_page(c) ==
    /\ pc[c] = "idle" /\ ~Crashed(c)
    /\ \/ /\ session[c].at = "start"
          /\ LoginGranted(c)
          /\ session' = [session EXCEPT ![c] =
                            [at |-> "home", username |-> returned[c][1]]]
       \/ /\ session[c].at = "create_new_user"
          /\ call[c].op = "create_new_user"
          /\ session' = [session EXCEPT ![c] =
                            [at |-> "home", username |-> call[c].username]]
    /\ UNCHANGED <<tbl_accounts, tbl_transactions, now, pc, call, step, previous_balance,
                   result, returned, pre, faultsIn, attempted, start, okcalls, ncalls,
                   nfaults>>

\* menus.account_dashboard: get_account_number, get_current_balance and
\* get_savings_balance; int(None) / float(None) raise TypeError.
account_dashboard(c) ==
    /\ AtMenu(c, "home")
    /\ call[c].op # "account_dashboard"
    /\ \E fault \in FaultChoices :
        /\ CountFault(fault)
        /\ faultsIn' = [faultsIn EXCEPT ![c] =
                           IF fault THEN {StepName("select", 0)} ELSE {}]
        /\ result' = [result EXCEPT ![c] =
              IF \E column \in {"id", "current_balance", "savings_balance"} :
                     get_column_from_username(
                         tbl_accounts, column, session[c].username, fault) = None
              THEN "TypeError" ELSE "ok"]
    /\ call' = [call EXCEPT ![c] =
                   [op |-> "account_dashboard", username |-> session[c].username,
                    value |-> 0, account |-> "none"]]
    /\ pre' = [pre EXCEPT ![c] =
                   [accounts |-> tbl_accounts, transactions |-> tbl_transactions]]
    /\ attempted' = [attempted EXCEPT ![c] = 1]
    /\ UNCHANGED <<tbl_accounts, tbl_transactions, now, pc, step, previous_balance,
                   returned, start, okcalls, ncalls, session>>

\* The dashboard has been shown and home_page matches the action chosen.
DashboardShown(c) == AtMenu(c, "home") /\ call[c].op = "account_dashboard"

\* home_page, cases DEPOSIT, WITHDRAW, TRANSFER: string_input accepts only a
\* valid account, float_input any amount.  At most MaxSessionCalls of them
\* are started in one run of the program.
home_page_operation(c) ==
    /\ DashboardShown(c)
    /\ ncalls < MaxSessionCalls
    /\ \E op \in {"deposit", "withdraw", "transfer"}, input_value \in Values,
          input_account \in VALID_ACCOUNTS :
        EnterCall(c, op, ActionsUser(c), input_value, input_account)

\* home_page, case TRANSACTION_LOG.
home_page_transactions(c) ==
    /\ DashboardShown(c)
    /\ get_transactions(c)
    /\ call'[c].username = ActionsUser(c)

\* home_page, case LOGOUT: break, back to main's loop.
home_page_logout(c) ==
    /\ DashboardShown(c)
    /\ session' = [session EXCEPT ![c] = NoSession]
    /\ call' = [call EXCEPT ![c] =
                   [op |-> "logout", username |-> session[c].username,
                    value |-> 0, account |-> "none"]]
    /\ UNCHANGED <<tbl_accounts, tbl_transactions, now, pc, step, previous_balance,
                   result, returned, pre, faultsIn, attempted, start, okcalls, ncalls,
                   nfaults>>

(* main(): the start menu, login, registration and the home page of one    *)
(* terminal session on a store that starts empty.                          *)
NextSession ==
    \E c \in SeqCallers :
        \/ main_login(c)
        \/ create_user_prompt(c)
        \/ create_user_insert(c)
        \/ enter_home_page(c)
        \/ account_dashboard(c)
        \/ home_page_operation(c)
        \/ add_balance_read(c)
        \/ add_balance_write(c)
        \/ log_transaction(c)
        \/ home_page_transactions(c)
        \/ home_page_logout(c)

SpecSession == Init /\ [][NextSession]_vars

(* ------------------------- properties: helpers ------------------------- *)

HasAccount(accounts, u) == RowsOf(accounts, u) # {}

\* The value of a balance column of u's row (u has a row, the value is not NULL).
Balance(accounts, u, column) == (CHOOSE r \in RowsOf(accounts, u) : TRUE)[column][1]

ColumnOf(selector) == IF selector = "current" THEN "current_balance" ELSE "savings_balance"

OtherColumn(column) ==
    IF column = "current_balance" THEN "savings_balance" ELSE "current_balance"

\* What one ledger record says about one balance column.
Implied(rec, column) ==
    IF rec.transaction_type = "deposit" THEN
        (IF ColumnOf(rec.account) = column THEN rec.amount ELSE 0)
    ELSE IF rec.transaction_type = "withdraw" THEN
        (IF ColumnOf(rec.account) = column THEN -rec.amount ELSE 0)
    ELSE IF rec.account = "current_to_savings" THEN
        (IF column = "current_balance" THEN -rec.amount ELSE rec.amount)
    ELSE
        (IF column = "current_balance" THEN rec.amount ELSE -rec.amount)

RECURSIVE LedgerSum(_, _, _)
LedgerSum(transactions, u, column) ==
    IF transactions = <<>> THEN 0
    ELSE (IF Head(transactions).username = u THEN Implied(Head(transactions), column) ELSE 0)
         + LedgerSum(Tail(transactions), u, column)

RecordsOf(transactions, u) ==
    Cardinality({i \in 1 .. Len(transactions) : transactions[i].username = u})

StartOf(u, column) == IF column = "current_balance" THEN start[u][1] ELSE start[u][2]

\* The caller's last call was op, has returned normally and met no storage fault.
Completed(c, op) ==
    /\ pc[c] = "idle"
    /\ call[c].op = op
    /\ result[c] = "ok"
    /\ faultsIn[c] = {}

\* The ledger is the one the call started from plus exactly one record with
\* these fields.
OneRecordAdded(c, kind, amount, label) ==
    /\ Len(tbl_transactions) = Len(pre[c].transactions) + 1
    /\ SubSeq(tbl_transactions, 1, Len(pre[c].transactions)) = pre[c].transactions
    /\ LET rec == tbl_transactions[Len(tbl_transactions)]
       IN  /\ rec.username = call[c].username
           /\ rec.transaction_type = kind
           /\ rec.amount = amount
           /\ rec.account = label

\* A call with valid arguments on an account that exists, without faults, has
\* returned normally once the caller is idle again.
ValidCallDone(c, op) ==
    /\ pc[c] = "idle"
    /\ call[c].op = op
    /\ call[c].value > 0
    /\ call[c].account \in VALID_ACCOUNTS
    /\ HasAccount(pre[c].accounts, call[c].username)
    /\ faultsIn[c] = {}

(* ------------------------------ claims --------------------------------- *)

\* C1: between sequential calls, with no storage fault so far, each balance
\* of every existing account equals the balance the account was created
\* with plus the signed sum its ledger records imply, and the user has as
\* many ledger records as calls that returned normally.
C1_LedgerBalanceConsistency ==
    (nfaults = 0 /\ \A c \in SeqCallers : pc[c] = "idle") =>
        \A u \in Usernames : HasAccount(tbl_accounts, u) =>
            /\ \A column \in {"current_balance", "savings_balance"} :
                   Balance(tbl_accounts, u, column)
                       = StartOf(u, column) + LedgerSum(tbl_transactions, u, column)
            /\ RecordsOf(tbl_transactions, u) = okcalls[u]

C1_Witness ==
    /\ nfaults = 0
    /\ \A c \in SeqCallers : pc[c] = "idle"
    /\ HasAccount(tbl_accounts, "alice")
    /\ okcalls["alice"] = 2
    /\ \E i \in 1 .. Len(tbl_transactions) : tbl_transactions[i].transaction_type = "transfer"
    /\ \E i \in 1 .. Len(tbl_transactions) : tbl_transactions[i].transaction_type = "withdraw"

\* C2: a deposit of amount > 0 with selector current or savings on an
\* existing account returns normally, raises the selected balance by exactly
\* amount and appends exactly one record (deposit, amount, selector).
C2_DepositEffect ==
    \A c \in SeqCallers : ValidCallDone(c, "deposit") =>
        /\ result[c] = "ok"
        /\ Balance(tbl_accounts, call[c].username, ColumnOf(call[c].account))
              = Balance(pre[c].accounts, call[c].username, ColumnOf(call[c].account))
                + call[c].value
        /\ OneRecordAdded(c, "deposit", call[c].value, call[c].account)

C2_Witness ==
    \E c \in SeqCallers :
        /\ Completed(c, "deposit")
        /\ call[c].account = "savings"
        /\ Len(tbl_transactions) = 2

\* C3: a withdraw of amount > 0 with a valid selector lowers the selected
\* balance by exactly amount whatever the balance was, also below zero, and
\* appends exactly one record (withdraw, amount, selector) with the positive
\* amount.
C3_WithdrawEffect ==
    \A c \in SeqCallers : ValidCallDone(c, "withdraw") =>
        /\ result[c] = "ok"
        /\ Balance(tbl_accounts, call[c].username, ColumnOf(call[c].account))
              = Balance(pre[c].accounts, call[c].username, ColumnOf(call[c].account))
                - call[c].value
        /\ OneRecordAdded(c, "withdraw", call[c].value, call[c].account)
        /\ tbl_transactions[Len(tbl_transactions)].amount > 0

C3_Witness ==
    \E c \in SeqCallers :
        /\ Completed(c, "withdraw")
        /\ Balance(pre[c].accounts, call[c].username, ColumnOf(call[c].account))
              < call[c].value
        /\ Balance(tbl_accounts, call[c].username, ColumnOf(call[c].account)) < 0

\* C4: transfer(amount, "current") leaves the accounts as withdraw(amount,
\* "current") followed by deposit(amount, "savings") from the same start
\* leaves them, and appends one record (transfer, amount,
\* current_to_savings) where the two calls append two.
C4_TransferAsWithdrawDeposit ==
    \A c \in SeqCallers :
        (ValidCallDone(c, "transfer") /\ call[c].account = "current") =>
            LET u == call[c].username
                v == call[c].value
                composed == RunCall(RunCall(pre[c], "withdraw", u, v, "current", now),
                                    "deposit", u, v, "savings", now)
            IN  /\ result[c] = "ok"
                /\ tbl_accounts = composed.accounts
                /\ OneRecordAdded(c, "transfer", v, "current_to_savings")
                /\ Len(composed.transactions) = Len(pre[c].transactions) + 2

C4_Witness ==
    \E c \in SeqCallers :
        /\ Completed(c, "transfer")
        /\ call[c].account = "current"
        /\ Balance(tbl_accounts, call[c].username, "savings_balance")
              = Balance(pre[c].accounts, call[c].username, "savings_balance") + call[c].value

\* C5: a transfer without faults lowers the source balance by amount, raises
\* the other balance by amount, keeps current + savings, and its one record
\* is labelled current_to_savings for source current and savings_to_current
\* for source savings.
C5_TransferConserves ==
    \A c \in SeqCallers : ValidCallDone(c, "transfer") =>
        LET u == call[c].username
            v == call[c].value
            src == ColumnOf(call[c].account)
            dst == OtherColumn(src)
        IN  /\ result[c] = "ok"
            /\ Balance(tbl_accounts, u, src) = Balance(pre[c].accounts, u, src) - v
            /\ Balance(tbl_accounts, u, dst) = Balance(pre[c].accounts, u, dst) + v
            /\ Balance(tbl_accounts, u, src) + Balance(tbl_accounts, u, dst)
                  = Balance(pre[c].accounts, u, src) + Balance(pre[c].accounts, u, dst)
            /\ OneRecordAdded(c, "transfer", v,
                              IF call[c].account = "current"
                              THEN "current_to_savings" ELSE "savings_to_current")

C5_Witness ==
    \E c \in SeqCallers :
        /\ Completed(c, "transfer")
        /\ call[c].account = "savings"
        /\ tbl_transactions[Len(tbl_transactions)].account = "savings_to_current"
        /\ Balance(tbl_accounts, call[c].username, "current_balance")
              = Balance(pre[c].accounts, call[c].username, "current_balance") + call[c].value

\* The change a call of this kind is to make to one balance column.
ExpectedDelta(op, value, account, column) ==
    IF op = "deposit" THEN (IF ColumnOf(account) = column THEN value ELSE 0)
    ELSE IF op = "withdraw" THEN (IF ColumnOf(account) = column THEN -value ELSE 0)
    ELSE (IF ColumnOf(account) = column THEN -value ELSE value)

AccountOps == {"deposit", "withdraw", "transfer"}

Total(accounts, u) ==
    Balance(accounts, u, "current_balance") + Balance(accounts, u, "savings_balance")

\* C6: two callers adjust the same balance of the same username; when both
\* read the balance before either wrote (both read the same value) and both
\* calls returned, the balance carries only one of the two deltas, not their
\* sum, and both ledger records are there.
C6_LostUpdate ==
    \A c1, c2 \in Callers :
        ( /\ c1 # c2
          /\ pc[c1] = "idle" /\ pc[c2] = "idle"
          /\ result[c1] = "ok" /\ result[c2] = "ok"
          /\ call[c1].op \in {"deposit", "withdraw"}
          /\ call[c2].op \in {"deposit", "withdraw"}
          /\ call[c1].username = call[c2].username
          /\ call[c1].account = call[c2].account
          /\ previous_balance[c1] = previous_balance[c2] ) =>
            LET u == call[c1].username
                column == ColumnOf(call[c1].account)
                b0 == StartOf(u, column)
                d1 == ExpectedDelta(call[c1].op, call[c1].value, call[c1].account, column)
                d2 == ExpectedDelta(call[c2].op, call[c2].value, call[c2].account, column)
                final == Balance(tbl_accounts, u, column)
            IN  /\ previous_balance[c1] = b0
                /\ final \in {b0 + d1, b0 + d2}
                /\ final # b0 + d1 + d2
                /\ Len(tbl_transactions) = 2
                /\ \A i \in 1 .. 2 : tbl_transactions[i].username = u

C6_Witness ==
    /\ pc["c1"] = "idle" /\ pc["c2"] = "idle"
    /\ result["c1"] = "ok" /\ result["c2"] = "ok"
    /\ call["c1"].op = "deposit" /\ call["c2"].op = "deposit"
    /\ call["c1"].username = "alice" /\ call["c2"].username = "alice"
    /\ call["c1"].account = "current" /\ call["c2"].account = "current"
    /\ previous_balance["c1"] = previous_balance["c2"]
    /\ Balance(tbl_accounts, "alice", "current_balance")
          = StartOf("alice", "current_balance") + call["c1"].value
    /\ Len(tbl_transactions) = 2

\* C7: whenever the ledger holds a record the running or last call of a
\* caller has added, that call has already attempted every one of its
\* balance writes (one for deposit and withdraw, two for transfer).
C7_WritesBeforeLog ==
    \A c \in SeqCallers :
        (call[c].op \in AccountOps /\ tbl_transactions # pre[c].transactions) =>
            /\ attempted[c] = (IF call[c].op = "transfer" THEN 2 ELSE 1)
            /\ pc[c] = "idle"

C7_Witness ==
    \E c \in SeqCallers :
        /\ call[c].op = "transfer"
        /\ tbl_transactions # pre[c].transactions
        /\ attempted[c] = 2

\* C8 as stated: at no state of a transfer without faults, for either
\* source, does current + savings exceed its value before the call.
C8_TotalNeverExceeds ==
    \A c \in Callers :
        ( /\ call[c].op = "transfer"
          /\ call[c].value > 0
          /\ call[c].account \in VALID_ACCOUNTS
          /\ HasAccount(pre[c].accounts, call[c].username)
          /\ faultsIn[c] = {} ) =>
            Total(tbl_accounts, call[c].username) <= Total(pre[c].accounts, call[c].username)

\* C8 amended: in a transfer without faults the current balance is written
\* first and the savings balance second, for either source.  With source
\* current the debit comes first and current + savings is below its value
\* before the call between the two writes; with source savings the credit of
\* current comes first and current + savings is above it by amount between
\* the two writes.  After both writes the total is the one before the call.
C8_CurrentWrittenFirst ==
    \A c \in SeqCallers :
        ( /\ call[c].op = "transfer"
          /\ call[c].value > 0
          /\ call[c].account \in VALID_ACCOUNTS
          /\ HasAccount(pre[c].accounts, call[c].username)
          /\ faultsIn[c] = {} ) =>
            LET u == call[c].username
                v == call[c].value
                cur == Balance(tbl_accounts, u, "current_balance")
                sav == Balance(tbl_accounts, u, "savings_balance")
                cur0 == Balance(pre[c].accounts, u, "current_balance")
                sav0 == Balance(pre[c].accounts, u, "savings_balance")
                sign == IF call[c].account = "current" THEN -1 ELSE 1
            IN  /\ attempted[c] = 0 => (cur = cur0 /\ sav = sav0)
                /\ attempted[c] = 1 =>
                      /\ cur = cur0 + sign * v
                      /\ sav = sav0
                      /\ tbl_transactions = pre[c].transactions
                      /\ (call[c].account = "current" => cur + sav = cur0 + sav0 - v)
                      /\ (call[c].account = "savings" => cur + sav = cur0 + sav0 + v)
                /\ attempted[c] = 2 =>
                      /\ cur = cur0 + sign * v
                      /\ sav = sav0 - sign * v

C8_Witness ==
    \E c \in SeqCallers :
        /\ call[c].op = "transfer"
        /\ call[c].account = "savings"
        /\ faultsIn[c] = {}
        /\ attempted[c] = 1
        /\ pc[c] = "read"
        /\ Total(tbl_accounts, call[c].username)
              = Total(pre[c].accounts, call[c].username) + call[c].value

\* C9: when the only statement of a call that hit a storage fault is the
\* ledger insert, the call returns normally, every balance change of the
\* call stays as written, and the ledger is the one the call started from.
C9_LogFaultKeepsBalance ==
    \A c \in SeqCallers :
        ( /\ pc[c] = "idle"
          /\ call[c].op \in AccountOps
          /\ faultsIn[c] = {StepName("log", 0)} ) =>
            /\ result[c] = "ok"
            /\ \A column \in {"current_balance", "savings_balance"} :
                   Balance(tbl_accounts, call[c].username, column)
                     = Balance(pre[c].accounts, call[c].username, column)
                       + ExpectedDelta(call[c].op, call[c].value, call[c].account, column)
            /\ tbl_transactions = pre[c].transactions

C9_Witness ==
    \E c \in SeqCallers :
        /\ pc[c] = "idle"
        /\ call[c].op = "deposit"
        /\ faultsIn[c] = {StepName("log", 0)}
        /\ Balance(tbl_accounts, call[c].username, ColumnOf(call[c].account))
             = Balance(pre[c].accounts, call[c].username, ColumnOf(call[c].account))
               + call[c].value
        /\ tbl_transactions = pre[c].transactions

\* C10: when the second balance adjustment of a transfer hits a storage
\* fault after the first one was written, the first balance (current, for
\* either source) keeps its change by amount and the second (savings) is as
\* before the call; a fault on the read ends the call with an error and
\* without a ledger record.
C10_FirstAdjustmentStays ==
    \A c \in SeqCallers :
        ( /\ pc[c] = "idle"
          /\ call[c].op = "transfer"
          /\ faultsIn[c] # {}
          /\ faultsIn[c] \subseteq {StepName("read", 2), StepName("write", 2)} ) =>
            LET u == call[c].username
                v == call[c].value
            IN  /\ Balance(tbl_accounts, u, "current_balance")
                     = Balance(pre[c].accounts, u, "current_balance")
                       + (IF call[c].account = "current" THEN -v ELSE v)
                /\ Balance(tbl_accounts, u, "savings_balance")
                     = Balance(pre[c].accounts, u, "savings_balance")
                /\ (StepName("read", 2) \in faultsIn[c] =>
                        /\ result[c] = "TypeError"
                        /\ tbl_transactions = pre[c].transactions)

C10_Witness ==
    \E c \in SeqCallers :
        /\ pc[c] = "idle"
        /\ call[c].op = "transfer"
        /\ call[c].account = "savings"
        /\ faultsIn[c] = {StepName("read", 2)}
        /\ result[c] = "TypeError"
        /\ Balance(tbl_accounts, call[c].username, "current_balance")
             = Balance(pre[c].accounts, call[c].username, "current_balance") + call[c].value
        /\ Balance(tbl_accounts, call[c].username, "savings_balance")
             = Balance(pre[c].accounts, call[c].username, "savings_balance")

\* C11: a deposit, withdraw or transfer with amount <= 0 stops at the amount
\* check with the amount ValueError, whatever the selector is: it reaches no
\* statement on the store, and both tables are as they were.
C11_InvalidAmountNoEffect ==
    \A c \in SeqCallers :
        (call[c].op \in AccountOps /\ call[c].value <= 0) =>
            /\ pc[c] = "idle"
            /\ result[c] = "ValueError: amount"
            /\ attempted[c] = 0
            /\ faultsIn[c] = {}
            /\ tbl_accounts = pre[c].accounts
            /\ tbl_transactions = pre[c].transactions

C11_Witness ==
    \E c \in SeqCallers :
        /\ call[c].op = "transfer"
        /\ call[c].value = 0
        /\ call[c].account = "current"
        /\ result[c] = "ValueError: amount"
        /\ Len(tbl_transactions) = 1

\* C12: a deposit, withdraw or transfer with amount > 0 and a selector other
\* than current and savings stops at the account check with the account
\* ValueError: it reaches no statement on the store, and both tables are as
\* they were.
C12_InvalidSelectorNoEffect ==
    \A c \in SeqCallers :
        ( /\ call[c].op \in AccountOps
          /\ call[c].value > 0
          /\ call[c].account \notin VALID_ACCOUNTS ) =>
            /\ pc[c] = "idle"
            /\ result[c] = "ValueError: account"
            /\ attempted[c] = 0
            /\ faultsIn[c] = {}
            /\ tbl_accounts = pre[c].accounts
            /\ tbl_transactions = pre[c].transactions

C12_Witness ==
    \E c \in SeqCallers :
        /\ call[c].op = "withdraw"
        /\ call[c].value > 0
        /\ call[c].account = "crypto"
        /\ result[c] = "ValueError: account"
        /\ Len(tbl_transactions) = 1

\* C18: every record the account operations have written has an amount > 0,
\* a kind among deposit, withdraw and transfer, and a label of its kind:
\* current or savings for deposit and withdraw, current_to_savings or
\* savings_to_current for transfer.
C18_RecordsWellFormed ==
    \A i \in 1 .. Len(tbl_transactions) :
        LET rec == tbl_transactions[i]
        IN  /\ rec.amount > 0
            /\ rec.transaction_type \in AccountOps
            /\ (rec.transaction_type \in {"deposit", "withdraw"}
                    => rec.account \in {"current", "savings"})
            /\ (rec.transaction_type = "transfer"
                    => rec.account \in {"current_to_savings", "savings_to_current"})

C18_Witness ==
    /\ Len(tbl_transactions) = 2
    /\ tbl_transactions[1].transaction_type = "withdraw"
    /\ tbl_transactions[2].transaction_type = "transfer"
    /\ tbl_transactions[2].account = "savings_to_current"

(* ---------------------------------------------------------------------- *)
(* C13  create_new_user with a username that already has a row changes no  *)
(*      row of tbl_accounts: no second row, and the existing row keeps its *)
(*      id, display name, password hash and balances.  Unless the INSERT   *)
(*      hit a storage fault the call fails with sqlite3.IntegrityError     *)
(*      (DuplicateUser).                                                   *)
(* ---------------------------------------------------------------------- *)
C13_DuplicateUserRejected ==
    \A c \in Callers :
        (call[c].op = "create_new_user" /\ HasAccount(pre[c].accounts, call[c].username))
        => /\ tbl_accounts = pre[c].accounts
           /\ Cardinality(RowsOf(tbl_accounts, call[c].username)) = 1
           /\ (faultsIn[c] = {} => result[c] = "IntegrityError")

\* A second create_new_user for a registered username, with another starting
\* balance than the existing row holds, has been refused.
C13_Witness ==
    \E c \in Callers :
        /\ call[c].op = "create_new_user"
        /\ result[c] = "IntegrityError"
        /\ \E r \in RowsOf(tbl_accounts, call[c].username) :
               r.current_balance # <<call[c].value>>

(* ---------------------------------------------------------------------- *)
(* C14  A storage fault during any read of the account store               *)
(*      (get_column_from_username, get_user_exists, get_password_hash,     *)
(*      get_current_balance, get_savings_balance, get_account_number)      *)
(*      gives the caller None / False and never an exception.              *)
(* ---------------------------------------------------------------------- *)
C14_ReadFaultRecovered ==
    \A c \in Callers :
        (call[c].op \in ReadOps /\ faultsIn[c] # {})
        => /\ result[c] = "ok"
           /\ returned[c] \in {None, <<FALSE>>}

(* ---------------------------------------------------------------------- *)
(* C20  get_column_from_username and set_column_from_username with a       *)
(*      column outside ALLOWED_COLUMNS raise ValueError before any         *)
(*      statement is issued, and set_column_from_username changes nothing. *)
(* ---------------------------------------------------------------------- *)
C20_InvalidColumnRejected ==
    \A c \in Callers :
        (/\ call[c].op \in {"get_column_from_username", "set_column_from_username"}
         /\ call[c].account \notin ALLOWED_COLUMNS)
        => /\ result[c] = "ValueError: column"
           /\ attempted[c] = 0
           /\ faultsIn[c] = {}
           /\ tbl_accounts = pre[c].accounts

\* set_column_from_username was called with a column outside the allow-list
\* for a username that has a row.
C20_Witness ==
    \E c \in Callers :
        /\ call[c].op = "set_column_from_username"
        /\ call[c].account \notin ALLOWED_COLUMNS
        /\ HasAccount(tbl_accounts, call[c].username)
        /\ result[c] = "ValueError: column"

(* ---------------------------------------------------------------------- *)
(* C15  get_transactions(username) returns exactly the records of that     *)
(*      username whose timestamp is >= the instant of the query minus      *)
(*      WindowDays days: all of those, none older, none of another user.   *)
(* ---------------------------------------------------------------------- *)
C15_ExactWindow ==
    \A c \in Callers :
        (call[c].op = "get_transactions" /\ faultsIn[c] = {})
        => {returned[c][i] : i \in DOMAIN returned[c]} =
           {pre[c].transactions[i] : i \in
               {k \in 1 .. Len(pre[c].transactions) :
                   /\ pre[c].transactions[k].username = call[c].username
                   /\ pre[c].transactions[k].timestamp
                          >= call[c].value - WindowDays * TicksPerDay}}

(* ---------------------------------------------------------------------- *)
(* C16  get_transactions returns records newest-first: of two returned     *)
(*      records the one appended later (the larger id) never comes after   *)
(*      the one appended earlier, also when both carry the same timestamp. *)
(* ---------------------------------------------------------------------- *)
C16_NewestFirst ==
    \A c \in Callers :
        call[c].op = "get_transactions"
        => \A i, j \in DOMAIN returned[c] :
               i < j => returned[c][i].id > returned[c][j].id

(* ---------------------------------------------------------------------- *)
(* C17  The ledger is append-only: no step of any operation changes or     *)
(*      removes a row that is in tbl_transactions, and the ids of the rows *)
(*      strictly increase in append order.                                 *)
(* ---------------------------------------------------------------------- *)
C17_AppendOnly ==
    [][/\ Len(tbl_transactions') >= Len(tbl_transactions)
       /\ \A i \in 1 .. Len(tbl_transactions) : tbl_transactions'[i] = tbl_transactions[i]
       /\ \A i, j \in 1 .. Len(tbl_transactions') :
              i < j => tbl_transactions'[i].id < tbl_transactions'[j].id]_vars

\* With two rows in the ledger, one appended by an account operation and one
\* by a direct log_transaction call, a later set_column_from_username,
\* create_new_user or get_transactions call has returned.
C17_Witness ==
    \E c \in Callers :
        /\ call[c].op \in {"set_column_from_username", "create_new_user", "get_transactions"}
        /\ Len(pre[c].transactions) >= 2
        /\ tbl_transactions = pre[c].transactions
        /\ \E i, j \in 1 .. Len(tbl_transactions) :
               /\ tbl_transactions[i].transaction_type = "transfer"
               /\ tbl_transactions[j].id = tbl_transactions[i].id + 1

\* The rows of u in the ledger, in append order, as <<type, amount, account>>.
LedgerOf(u) ==
    LET rows == SelectSeq(tbl_transactions, LAMBDA r : r.username = u)
    IN  [i \in DOMAIN rows |->
            <<rows[i].transaction_type, rows[i].amount, rows[i].account>>]

(* ---------------------------------------------------------------------- *)
(* C19  From current = 100 and savings = 50, deposit(25, current),         *)
(*      withdraw(200, current), transfer(10, savings) end with             *)
(*      current = -65, savings = 40 and exactly three ledger rows of the   *)
(*      user, in append order (deposit, 25, current),                      *)
(*      (withdraw, 200, current), (transfer, 10, savings_to_current).      *)
(* ---------------------------------------------------------------------- *)
C19_WorkedExample ==
    \A c \in Callers :
        (pc[c] = "idle" /\ okcalls[ScenarioUser(c)] = Len(Script))
        => /\ Balance(tbl_accounts, ScenarioUser(c), "current_balance") = -65
           /\ Balance(tbl_accounts, ScenarioUser(c), "savings_balance") = 40
           /\ LedgerOf(ScenarioUser(c)) =
                  <<<<"deposit", 25, "current">>, <<"withdraw", 200, "current">>,
                    <<"transfer", 10, "savings_to_current">>>>

\* alice has run the whole example while bob is in the middle of his.
C19_Witness ==
    /\ pc["c1"] = "idle"
    /\ okcalls["alice"] = Len(Script)
    /\ okcalls["bob"] = 1
    /\ Balance(tbl_accounts, "alice", "current_balance") = -65

(* ---------------------------------------------------------------------- *)
(* C21  set_column_from_username with an allowed column and a username     *)
(*      that has no row is a silent no-op: it returns normally, creates no *)
(*      row and leaves every existing row unchanged.                       *)
(* ---------------------------------------------------------------------- *)
C21_SetFieldUnknownUserNoOp ==
    \A c \in Callers :
        (/\ call[c].op = "set_column_from_username"
         /\ call[c].account \in ALLOWED_COLUMNS
         /\ ~HasAccount(pre[c].accounts, call[c].username))
        => /\ result[c] = "ok"
           /\ tbl_accounts = pre[c].accounts

\* The UPDATE ran without a fault for a username that has no row while the
\* other user's row holds a value different from the new one.
C21_Witness ==
    \E c \in Callers :
        /\ call[c].op = "set_column_from_username"
        /\ call[c].account = "current_balance"
        /\ faultsIn[c] = {}
        /\ ~HasAccount(pre[c].accounts, call[c].username)
        /\ \E r \in tbl_accounts : r.current_balance = <<1>>

(* ---------------------------------------------------------------------- *)
(* C22  get_transactions whose SELECT hits a storage fault does not raise: *)
(*      it returns the empty list and leaves the ledger unchanged.         *)
(* ---------------------------------------------------------------------- *)
C22_QueryFaultGivesEmpty ==
    \A c \in Callers :
        (call[c].op = "get_transactions" /\ faultsIn[c] # {})
        => /\ result[c] = "ok"
           /\ returned[c] = <<>>
           /\ tbl_transactions = pre[c].transactions

\* The SELECT hit a fault while the ledger held a row of the queried user
\* inside the window.
C22_Witness ==
    \E c \in Callers :
        /\ call[c].op = "get_transactions"
        /\ faultsIn[c] # {}
        /\ returned[c] = <<>>
        /\ Selected(pre[c].transactions, call[c].username, call[c].value) # {}

\* Row i of the ledger carries the arguments of caller c's log_transaction call.
SameArguments(transactions, i, c) ==
    /\ transactions[i].username = call[c].username
    /\ transactions[i].amount = call[c].value
    /\ transactions[i].account = call[c].account
    /\ transactions[i].transaction_type \in {input[1] : input \in LogInputs}

(* ---------------------------------------------------------------------- *)
(* C23  log_transaction is not idempotent: every call whose INSERT meets   *)
(*      no fault adds one row with an id no earlier row has, also when the *)
(*      ledger already holds a row with the same username, type, amount    *)
(*      and account; two such calls make the ledger grow by two.           *)
(* ---------------------------------------------------------------------- *)
C23_AppendNotIdempotent ==
    \A c \in Callers :
        (call[c].op = "log_transaction" /\ faultsIn[c] = {})
        => /\ Len(tbl_transactions) = Len(pre[c].transactions) + 1
           /\ SubSeq(tbl_transactions, 1, Len(pre[c].transactions)) = pre[c].transactions
           /\ SameArguments(tbl_transactions, Len(tbl_transactions), c)
           /\ \A i \in 1 .. Len(pre[c].transactions) :
                  tbl_transactions[i].id # tbl_transactions[Len(tbl_transactions)].id

\* The call repeated the call before it: the last two rows carry its
\* arguments and the same timestamp, and differ in id.
C23_Witness ==
    \E c \in Callers :
        /\ call[c].op = "log_transaction"
        /\ faultsIn[c] = {}
        /\ Len(tbl_transactions) = 2
        /\ Len(pre[c].transactions) = 1
        /\ SameArguments(tbl_transactions, 1, c)
        /\ SameArguments(tbl_transactions, 2, c)
        /\ tbl_transactions[1].timestamp = tbl_transactions[2].timestamp
        /\ tbl_transactions[1].id # tbl_transactions[2].id

(* ---------------------------------------------------------------------- *)
(* C24  Every create_new_user call, accepted or rejected, keeps each       *)
(*      existing row's id and username, gives a new row an id no row has   *)
(*      held, and leaves no two rows with the same username or the same    *)
(*      id.                                                                *)
(* ---------------------------------------------------------------------- *)
C24_IdentityStable ==
    [][(\E c \in Callers : /\ call'[c].op = "create_new_user"
                           /\ pre'[c].accounts = tbl_accounts)
       => /\ \A r \in tbl_accounts :
                 \E q \in tbl_accounts' : q.id = r.id /\ q.username = r.username
          /\ \A q \in tbl_accounts' \ tbl_accounts :
                 \A r \in tbl_accounts : r.id # q.id
          /\ \A q, r \in tbl_accounts' :
                 q # r => (q.username # r.username /\ q.id # r.id)]_vars

\* Both users are registered and a further create_new_user was rejected.
C24_Witness ==
    \E c \in Callers :
        /\ call[c].op = "create_new_user"
        /\ result[c] = "IntegrityError"
        /\ Cardinality(tbl_accounts) = 2
        /\ Cardinality({r.id : r \in tbl_accounts}) = 2

\* The password hash stored for u (u has a row).
StoredHash(accounts, u) == (CHOOSE r \in RowsOf(accounts, u) : TRUE).password_hash

\* The login attempt of caller c names an account, and the stored hash is
\* the digest of the password typed.
ValidCredentials(c) ==
    /\ HasAccount(pre[c].accounts, call[c].username)
    /\ StoredHash(pre[c].accounts, call[c].username) = hash_bcrypt(call[c].account)

(* ---------------------------------------------------------------------- *)
(* C25  login_prompt returns the username only if the account exists and   *)
(*      check_password accepts the password against the stored hash; an    *)
(*      unknown username and a wrong password both return False and lead   *)
(*      to the same "Incorrect login details" message; no login attempt    *)
(*      changes a table.                                                   *)
(* ---------------------------------------------------------------------- *)
C25_LoginOnlyWithValidCredentials ==
    \A c \in Callers :
        call[c].op = "login_prompt"
        => /\ returned[c] \in {<<call[c].username>>, <<>>}
           /\ (returned[c] = <<call[c].username>> => ValidCredentials(c))
           /\ (~ValidCredentials(c)
                  => returned[c] = <<>> /\ result[c] = "Incorrect login details")
           /\ tbl_accounts = pre[c].accounts
           /\ tbl_transactions = pre[c].transactions

\* A registered user typed a wrong password, no read hit a fault, and the
\* attempt failed.
C25_Witness ==
    \E c \in Callers :
        /\ call[c].op = "login_prompt"
        /\ faultsIn[c] = {}
        /\ HasAccount(tbl_accounts, call[c].username)
        /\ ~HasAccount(tbl_accounts, "bob")
        /\ ~ValidCredentials(c)
        /\ result[c] = "Incorrect login details"

(* ---------------------------------------------------------------------- *)
(* C26  log_transaction does not check that the username has an account:   *)
(*      for a username with no row in tbl_accounts the call returns        *)
(*      normally and, unless the INSERT hit a fault, the row is stored;    *)
(*      get_transactions for that username returns such rows.              *)
(* ---------------------------------------------------------------------- *)
C26_OrphanedRecordStored ==
    \A c \in Callers :
        (~HasAccount(tbl_accounts, call[c].username) /\ faultsIn[c] = {})
        => /\ (call[c].op = "log_transaction"
                  => /\ result[c] = "ok"
                     /\ Len(tbl_transactions) = Len(pre[c].transactions) + 1
                     /\ tbl_transactions[Len(tbl_transactions)].username = call[c].username)
           /\ (call[c].op = "get_transactions"
                  => {returned[c][i] : i \in DOMAIN returned[c]} =
                     {pre[c].transactions[i] : i \in
                         {k \in 1 .. Len(pre[c].transactions) :
                             /\ pre[c].transactions[k].username = call[c].username
                             /\ pre[c].transactions[k].timestamp >= Cutoff(call[c].value)}})

\* get_transactions has returned a row of a username that has no account.
C26_Witness ==
    \E c \in Callers :
        /\ call[c].op = "get_transactions"
        /\ ~HasAccount(tbl_accounts, call[c].username)
        /\ Len(returned[c]) >= 1
        /\ returned[c][1].username = call[c].username

\* The add_*_balance call of an operation that writes the column.
WriteStepOf(op, column) ==
    IF op = "transfer" /\ column = "savings_balance" THEN 2 ELSE 1

(* ---------------------------------------------------------------------- *)
(* C27  A storage fault on a balance write inside deposit, withdraw or     *)
(*      transfer is swallowed: the call runs its remaining steps, appends  *)
(*      its ledger record and returns normally, while the balance whose    *)
(*      write failed is as before the call (the other leg of a transfer is *)
(*      applied).                                                          *)
(* ---------------------------------------------------------------------- *)
C27_WriteFaultSwallowed ==
    \A c \in SeqCallers :
        ( /\ pc[c] = "idle"
          /\ call[c].op \in AccountOps
          /\ faultsIn[c] # {}
          /\ faultsIn[c] \subseteq {StepName("write", 1), StepName("write", 2)} ) =>
            /\ result[c] = "ok"
            /\ OneRecordAdded(c, call[c].op, call[c].value,
                              LogLabel(call[c].op, call[c].account))
            /\ \A column \in {"current_balance", "savings_balance"} :
                   Balance(tbl_accounts, call[c].username, column)
                     = Balance(pre[c].accounts, call[c].username, column)
                       + (IF StepName("write", WriteStepOf(call[c].op, column)) \in faultsIn[c]
                          THEN 0
                          ELSE ExpectedDelta(call[c].op, call[c].value,
                                             call[c].account, column))

\* A transfer whose first write failed was logged with only its second leg
\* applied.
C27_Witness ==
    \E c \in SeqCallers :
        /\ pc[c] = "idle"
        /\ call[c].op = "transfer"
        /\ call[c].account = "current"
        /\ faultsIn[c] = {StepName("write", 1)}
        /\ result[c] = "ok"
        /\ Len(tbl_transactions) = Len(pre[c].transactions) + 1
        /\ Balance(tbl_accounts, call[c].username, "current_balance")
             = Balance(pre[c].accounts, call[c].username, "current_balance")
        /\ Balance(tbl_accounts, call[c].username, "savings_balance")
             = Balance(pre[c].accounts, call[c].username, "savings_balance") + call[c].value

(* ---------------------------------------------------------------------- *)
(* C28  deposit, withdraw and transfer with valid arguments for a username *)
(*      that has no account end with the TypeError raised while reading    *)
(*      the balance, before any write: no row is created, no balance       *)
(*      changes and no ledger record is appended.                          *)
(* ---------------------------------------------------------------------- *)
C28_NoAccountFailsOnRead ==
    \A c \in SeqCallers :
        ( /\ call[c].op \in AccountOps
          /\ call[c].value > 0
          /\ call[c].account \in VALID_ACCOUNTS
          /\ ~HasAccount(pre[c].accounts, call[c].username) ) =>
            /\ attempted[c] = 0
            /\ tbl_accounts = pre[c].accounts
            /\ tbl_transactions = pre[c].transactions
            /\ pc[c] \in {"read", "idle"}
            /\ (pc[c] = "idle" => result[c] = "TypeError")

\* A transfer for an unregistered username has ended in the read, with no
\* storage fault, while the other user has an account.
C28_Witness ==
    \E c \in SeqCallers :
        /\ pc[c] = "idle"
        /\ call[c].op = "transfer"
        /\ call[c].value > 0
        /\ call[c].account \in VALID_ACCOUNTS
        /\ faultsIn[c] = {}
        /\ ~HasAccount(tbl_accounts, call[c].username)
        /\ tbl_accounts # {}
        /\ result[c] = "TypeError"

(* ---------------------------------------------------------------------- *)
(* C29  A deposit or withdraw for user u leaves u's other balance, u's id, *)
(*      username, display name and password hash, every other user's row   *)
(*      and every existing ledger row unchanged; a transfer changes only   *)
(*      u's two balances; each call adds at most one ledger row, and       *)
(*      exactly one when it returns normally and its INSERT met no fault.  *)
(* ---------------------------------------------------------------------- *)
C29_FrameOfAccountOps ==
    \A c \in SeqCallers :
        call[c].op \in AccountOps =>
            /\ Cardinality(tbl_accounts) = Cardinality(pre[c].accounts)
            /\ \A r \in pre[c].accounts :
                   \E q \in tbl_accounts :
                       /\ q.id = r.id
                       /\ q.username = r.username
                       /\ q.display_name = r.display_name
                       /\ q.password_hash = r.password_hash
                       /\ (r.username # call[c].username => q = r)
                       /\ (call[c].op \in {"deposit", "withdraw"}
                           /\ call[c].account \in VALID_ACCOUNTS
                             => q[OtherColumn(ColumnOf(call[c].account))]
                                  = r[OtherColumn(ColumnOf(call[c].account))])
            /\ Len(tbl_transactions) \in
                   {Len(pre[c].transactions), Len(pre[c].transactions) + 1}
            /\ SubSeq(tbl_transactions, 1, Len(pre[c].transactions)) = pre[c].transactions
            /\ (pc[c] = "idle" /\ result[c] = "ok" /\ StepName("log", 0) \notin faultsIn[c]
                  => Len(tbl_transactions) = Len(pre[c].transactions) + 1)

\* A second call, a withdraw, has changed its one balance while the ledger
\* already held a row and the other user's row holds other balances.
C29_Witness ==
    \E c \in SeqCallers :
        /\ Completed(c, "withdraw")
        /\ call[c].account = "savings"
        /\ Len(pre[c].transactions) = 1
        /\ tbl_accounts # pre[c].accounts
        /\ \E r \in tbl_accounts :
               r.username # call[c].username /\ r.current_balance # <<1>>

\* The balances a call adjusts: <<username, column>>.
Touched(c) ==
    {<<call[c].username, column>> : column \in
        {col \in {"current_balance", "savings_balance"} :
            ExpectedDelta(call[c].op, call[c].value, call[c].account, col) # 0}}

\* What caller c's call adds to the balance column of u.
DeltaOn(c, u, column) ==
    IF call[c].username = u
    THEN ExpectedDelta(call[c].op, call[c].value, call[c].account, column)
    ELSE 0

(* ---------------------------------------------------------------------- *)
(* C30  Two concurrent calls that adjust different usernames, or different *)
(*      balances of the same username, lose no update under any            *)
(*      interleaving of their reads and writes: when both have returned,   *)
(*      every balance is its start value plus the deltas applied to it.    *)
(* ---------------------------------------------------------------------- *)
C30_DisjointCallsKeepUpdates ==
    \A c1, c2 \in Callers :
        ( /\ c1 # c2
          /\ pc[c1] = "idle" /\ pc[c2] = "idle"
          /\ result[c1] = "ok" /\ result[c2] = "ok"
          /\ call[c1].op \in AccountOps /\ call[c2].op \in AccountOps
          /\ Touched(c1) \cap Touched(c2) = {} ) =>
            \A u \in Usernames, column \in {"current_balance", "savings_balance"} :
                Balance(tbl_accounts, u, column)
                  = StartOf(u, column) + DeltaOn(c1, u, column) + DeltaOn(c2, u, column)

\* A deposit to the current balance and a withdraw from the savings balance
\* of the same user, made by two callers, have both returned.
C30_Witness ==
    \E c1, c2 \in Callers :
        /\ c1 # c2
        /\ pc[c1] = "idle" /\ pc[c2] = "idle"
        /\ result[c1] = "ok" /\ result[c2] = "ok"
        /\ call[c1].op = "deposit" /\ call[c1].account = "current"
        /\ call[c2].op = "withdraw" /\ call[c2].account = "savings"
        /\ call[c1].username = call[c2].username
        /\ Balance(tbl_accounts, call[c1].username, "current_balance")
             = StartOf(call[c1].username, "current_balance") + call[c1].value
        /\ Balance(tbl_accounts, call[c1].username, "savings_balance")
             = StartOf(call[c1].username, "savings_balance") - call[c2].value

(* ------------------------------- C31 ----------------------------------- *)

\* The operations home_page runs on an account.
SessionOps == AccountOps \cup {"get_transactions"}

\* This step invokes deposit, withdraw, transfer or the transaction view.
InvokesOperation(c) == call'[c] # call[c] /\ call'[c].op \in SessionOps

\* This step is main() calling home_page(res).
EntersHome(c) == session[c].at # "home" /\ session'[c].at = "home"

\* res is the username a successful login returned, or the username of a
\* registration that ran to its end.
FromLoginOrRegistration(c, res) ==
    \/ /\ call[c].op = "login_prompt"
       /\ returned[c] = <<res>>
       /\ ValidCredentials(c)
    \/ /\ call[c].op = "create_new_user"
       /\ result[c] = "ok"
       /\ call[c].username = res

\* C31: in the session loop deposit, withdraw, transfer and the transaction view
\* are invoked only inside home_page and only with the username home_page was
\* given; home_page is entered only with the username returned by a successful
\* login or by a completed registration; LOGOUT leads back to the start menu,
\* where no account operation is invoked.
C31_SessionUserOnly ==
    [][\A c \in SeqCallers :
          /\ InvokesOperation(c) =>
                /\ session[c].at = "home"
                /\ session'[c] = session[c]
                /\ call'[c].username = session[c].username
          /\ EntersHome(c) => FromLoginOrRegistration(c, session'[c].username)
          /\ (call'[c] # call[c] /\ call'[c].op = "logout") =>
                /\ session[c].at = "home"
                /\ session'[c] = NoSession]_vars

\* After an account operation of an earlier session and its LOGOUT, a new
\* login has succeeded and home_page runs for the username it returned.
C31_Witness ==
    /\ session["c1"].at = "home"
    /\ call["c1"].op = "login_prompt"
    /\ returned["c1"] = <<session["c1"].username>>
    /\ okcalls[session["c1"].username] > 0
    /\ RecordsOf(tbl_transactions, session["c1"].username) > 0

====
